---- MODULE Spec2Model ----
(***************************************************************************)
(* Model of the Neo-Core swarm API (src/api/app.py): the retrying call to  *)
(* the generation backend (aoai_chat), the lenient JSON extraction         *)
(* (safe_json), one advisor call (_run_one_advisor) and the three-stage    *)
(* request handler (swarm_decide).                                         *)
(*                                                                         *)
(* A Python str is modelled as a sequence of lexical tokens (each token a  *)
(* TLA+ string): braces, a comma, whitespace, a noise word, JSON literals  *)
(* and whole  "key":value  members.                                        *)
(***************************************************************************)
EXTENDS Integers, Sequences, FiniteSets, TLC

\* ------------------------------------------------------------------------
\* Configuration (module-level constants of app.py)
\* ------------------------------------------------------------------------
RETRY_MAX == 2

JITTER_MAX == 150

DEFAULT_RETRY_BASE_MS == 250

RETRYABLE == {429, 502, 503, 504}

NETWORK_FAULTS == {"ReadTimeout", "ConnectTimeout", "RemoteProtocolError"}

advisor_defs ==
    << [name |-> "Builder",      dep |-> "dep_builder"],
       [name |-> "Skeptic",      dep |-> "dep_skeptic"],
       [name |-> "Optimizer",    dep |-> "dep_optimizer"],
       [name |-> "UserAdvocate", dep |-> "dep_user"] >>

NumAdvisors == Len(advisor_defs)

Advisors == 1..NumAdvisors

\* ------------------------------------------------------------------------
\* Strings and JSON values
\* ------------------------------------------------------------------------
WS == " "

Keys == {"summary", "risks", "recommendation",
         "decision", "rationale", "dissent_summary", "next_actions"}

\* A JSON value held under a key: a string (s = its tokens), a non-zero number
\* or a list (s = the str() of its elements); "none" is Python's None, which
\* dict.get returns for an absent key.
NoneV == [t |-> "none", s |-> <<>>]

StrV(s) == [t |-> "str", s |-> s]

NumV(s) == [t |-> "num", s |-> s]

ListV(s) == [t |-> "list", s |-> s]

\* The  "key":value  members the menus of texts use.
MemberTokens == {"s=x", "s= x ", "s=", "s=5", "k=[r]", "k=5", "r=y", "r=5",
                 "d=z", "d=5", "t=q", "u=v", "a=[n]"}

MemberKey(tok) ==
    CASE tok \in {"s=x", "s= x ", "s=", "s=5"} -> "summary"
      [] tok \in {"k=[r]", "k=5"}              -> "risks"
      [] tok \in {"r=y", "r=5"}                -> "recommendation"
      [] tok \in {"d=z", "d=5"}                -> "decision"
      [] tok = "t=q"                           -> "rationale"
      [] tok = "u=v"                           -> "dissent_summary"
      [] tok = "a=[n]"                         -> "next_actions"

MemberVal(tok) ==
    CASE tok = "s=x"    -> StrV(<<"x">>)
      [] tok = "s= x "  -> StrV(<<WS, "x", WS>>)
      [] tok = "s="     -> StrV(<<>>)
      [] tok = "r=y"    -> StrV(<<"y">>)
      [] tok = "d=z"    -> StrV(<<"z">>)
      [] tok = "t=q"    -> StrV(<<"q">>)
      [] tok = "u=v"    -> StrV(<<"v">>)
      [] tok = "k=[r]"  -> ListV(<<"r">>)
      [] tok = "a=[n]"  -> ListV(<<"n">>)
      [] tok \in {"s=5", "k=5", "r=5", "d=5"} -> NumV(<<"5">>)

\* str.strip()
RECURSIVE lstrip(_)
lstrip(s) == IF s # <<>> /\ Head(s) = WS THEN lstrip(Tail(s)) ELSE s

RECURSIVE rstrip(_)
rstrip(s) == IF s # <<>> /\ s[Len(s)] = WS THEN rstrip(SubSeq(s, 1, Len(s) - 1)) ELSE s

strip(s) == rstrip(lstrip(s))

\* str.find / str.rfind: 0-based index of the first / last occurrence, or -1
Occurrences(s, c) == {i \in 1..Len(s) : s[i] = c}

SetMin(S) == CHOOSE x \in S : \A y \in S : x <= y

SetMax(S) == CHOOSE x \in S : \A y \in S : x >= y

find(s, c) == IF Occurrences(s, c) = {} THEN -1 ELSE SetMin(Occurrences(s, c)) - 1

rfind(s, c) == IF Occurrences(s, c) = {} THEN -1 ELSE SetMax(Occurrences(s, c)) - 1

\* A parsed JSON document: a dict (m = its mapping, absent keys None), another
\* JSON value (a number, a list), or "fail" when json.loads raises.
NoKeys == [k \in Keys |-> NoneV]

EmptyDict == [t |-> "dict", m |-> NoKeys]

ParseFail == [t |-> "fail", m |-> NoKeys]

\* The members between the braces: empty, or members separated by commas.
WellFormedMembers(inner) ==
    \/ inner = <<>>
    \/ /\ Len(inner) % 2 = 1
       /\ \A i \in 1..Len(inner) :
            IF i % 2 = 1 THEN inner[i] \in MemberTokens ELSE inner[i] = ","

\* A repeated key keeps its last value, as a Python dict does.
MemberMap(inner) ==
    [k \in Keys |->
        LET idx == {i \in 1..Len(inner) :
                      inner[i] \in MemberTokens /\ MemberKey(inner[i]) = k}
        IN  IF idx = {} THEN NoneV ELSE MemberVal(inner[SetMax(idx)])]

\* json.loads: whitespace between tokens is insignificant; anything that is
\* not exactly one JSON value raises.
json_loads(text) ==
    LET toks == SelectSeq(text, LAMBDA c : c # WS)
        n    == Len(toks)
    IN  IF n = 1 /\ toks[1] = "5" THEN [t |-> "num", m |-> NoKeys]
        ELSE IF n = 1 /\ toks[1] = "[]" THEN [t |-> "list", m |-> NoKeys]
        ELSE IF /\ n >= 2
                /\ toks[1] = "{"
                /\ toks[n] = "}"
                /\ WellFormedMembers(SubSeq(toks, 2, n - 1))
             THEN [t |-> "dict", m |-> MemberMap(SubSeq(toks, 2, n - 1))]
        ELSE ParseFail

\* Variant with a fault injected: the candidate ends at the first "}"
safe_json_first_close(text) ==
    IF text = <<>> THEN EmptyDict
    ELSE LET stripped == strip(text)
             direct   == json_loads(stripped)
             start    == find(stripped, "{")
             end      == find(stripped, "}")
         IN  IF direct.t # "fail" THEN direct
             ELSE IF start # -1 /\ end # -1 /\ end > start
                  THEN LET candidate == json_loads(SubSeq(stripped, start + 1, end + 1))
                       IN  IF candidate.t # "fail" THEN candidate ELSE EmptyDict
                  ELSE EmptyDict

safe_json(text) ==
    IF text = <<>> THEN EmptyDict
    ELSE LET stripped == strip(text)
             direct   == json_loads(stripped)
             start    == find(stripped, "{")
             end      == rfind(stripped, "}")
         IN  IF direct.t # "fail" THEN direct
             ELSE IF start # -1 /\ end # -1 /\ end > start
                  THEN LET candidate == json_loads(SubSeq(stripped, start + 1, end + 1))
                       IN  IF candidate.t # "fail" THEN candidate ELSE EmptyDict
                  ELSE EmptyDict

\* Python truthiness of a value returned by dict.get
Truthy(v) ==
    \/ v.t = "str" /\ v.s # <<>>
    \/ v.t = "num"
    \/ v.t = "list" /\ v.s # <<>>

\* (obj.get(key) or "").strip() raises AttributeError when obj is not a dict
\* or the value is truthy and not a str.
StrFieldRaises(obj, key) ==
    \/ obj.t # "dict"
    \/ Truthy(obj.m[key]) /\ obj.m[key].t # "str"

StrField(obj, key) == IF Truthy(obj.m[key]) THEN strip(obj.m[key].s) ELSE <<>>

\* obj.get(key) if isinstance(obj.get(key), list) else []
ListField(obj, key) == IF obj.m[key].t = "list" THEN obj.m[key].s ELSE <<>>

\* ------------------------------------------------------------------------
\* State
\* ------------------------------------------------------------------------
VARIABLES
    AZ_OK,          \* AZ_ENDPOINT and AZ_KEY and AZ_VER are all set
    RETRY_BASE_MS,  \* the configured base delay
    client,         \* the shared httpx client: "None" or "open"
    pc,             \* where swarm_decide is
    calls,          \* the frame of every call of the request
    pass1,          \* swarm_decide's pass1
    revised,        \* swarm_decide's revised
    response        \* what swarm_decide returned

vars == <<AZ_OK, RETRY_BASE_MS, client, pc, calls, pass1, revised, response>>

\* <<1, a>>: advisor a's round-1 call; <<2, a>>: its round-2 call; <<3, 1>>: the monarch call
MONARCH == <<3, 1>>

CallIds == ({1, 2} \X Advisors) \cup {MONARCH}

\* ------------------------------------------------------------------------
\* What one HTTP attempt can come back with, and how a call can end
\* ------------------------------------------------------------------------
\* A response with a well-formed body whose message content is text
Http(code, text) == [k |-> "http", code |-> code, exc |-> "", text |-> text]

\* A 2xx/3xx response whose body r.json() cannot decode
BadBody(code) == [k |-> "http", code |-> code, exc |-> "JSONDecodeError", text |-> <<>>]

\* client.post raising an httpx exception
Fault(e) == [k |-> "exc", code |-> 0, exc |-> e, text |-> <<>>]

NoOut == [k |-> "none", code |-> 0, exc |-> "", text |-> <<>>]

RetryOut == [k |-> "retry", code |-> 0, exc |-> "", text |-> <<>>]

TextOut(text) == [k |-> "text", code |-> 0, exc |-> "", text |-> text]

HTTPException(code) == [k |-> "http", code |-> code, exc |-> "", text |-> <<>>]

ExcOut(e) == [k |-> "exc", code |-> 0, exc |-> e, text |-> <<>>]

TimeoutError == [k |-> "timeout", code |-> 0, exc |-> "", text |-> <<>>]

\* ------------------------------------------------------------------------
\* aoai_chat
\* ------------------------------------------------------------------------
\* Variant with a fault injected: the status retry forgets the attempt limit
RetryStatusUnbounded(attempt, resp) == resp.code \in RETRYABLE

\* Variant with a fault injected: every status of 400 or above is retried
RetryAnyError(attempt, resp) == resp.code >= 400 /\ attempt < RETRY_MAX

RetryStatus(attempt, resp) == resp.code \in RETRYABLE /\ attempt < RETRY_MAX

RetryFault(attempt, resp) == resp.exc \in NETWORK_FAULTS /\ ~(attempt >= RETRY_MAX)

\* Variant with a fault injected: the delay halves instead of doubling
backoff_halving(attempt, jitter) == RETRY_BASE_MS \div (2 ^ attempt) + jitter

backoff(attempt, jitter) == RETRY_BASE_MS * (2 ^ attempt) + jitter

\* What the loop body does with the answer to the post of this attempt:
\* sleep and go round again, return the text, or raise.
attempt_outcome(attempt, resp) ==
    IF resp.k = "http"
    THEN IF RetryStatus(attempt, resp) THEN RetryOut
         ELSE IF resp.code >= 400 THEN HTTPException(resp.code)
         ELSE IF resp.exc # "" THEN ExcOut(resp.exc)
         ELSE TextOut(resp.text)
    ELSE IF resp.exc \in NETWORK_FAULTS
         THEN IF RetryFault(attempt, resp) THEN RetryOut ELSE HTTPException(502)
         ELSE ExcOut(resp.exc)

\* Variant with a fault injected: for attempt in range(RETRY_MAX)
LoopContinuesShort(attempt) == attempt + 1 < RETRY_MAX

\* for attempt in range(RETRY_MAX + 1)
LoopContinues(attempt) == attempt + 1 < RETRY_MAX + 1

\* ------------------------------------------------------------------------
\* _run_one_advisor
\* ------------------------------------------------------------------------
AdvisorOut(name, model, summary, risks, recommendation) ==
    [name |-> name, model |-> model, summary |-> summary, risks |-> risks,
     recommendation |-> recommendation]

NoAdvisor == AdvisorOut("", "", <<>>, <<>>, <<>>)

\* f"error:{e.status_code}"
StatusRisk(code) ==
    CASE code = 400 -> "error:400"
      [] code = 429 -> "error:429"
      [] code = 500 -> "error:500"
      [] code = 502 -> "error:502"
      [] code = 503 -> "error:503"
      [] code = 504 -> "error:504"

\* f"exception:{type(e).__name__}"
ExcRisk(e) ==
    CASE e = "RuntimeError"    -> "exception:RuntimeError"
      [] e = "AttributeError"  -> "exception:AttributeError"
      [] e = "JSONDecodeError" -> "exception:JSONDecodeError"
      [] e = "WriteTimeout"    -> "exception:WriteTimeout"
      [] e = "PoolTimeout"     -> "exception:PoolTimeout"
      [] e = "ConnectError"    -> "exception:ConnectError"

\* The try body after the call returned raw: does it raise?
advisor_parse_raises(raw) ==
    StrFieldRaises(safe_json(raw), "summary") \/ StrFieldRaises(safe_json(raw), "recommendation")

\* Variant with a fault injected: the raw text is not used when no summary was parsed
advisor_no_fallback(name, dep, raw) ==
    AdvisorOut(name, dep, StrField(safe_json(raw), "summary"),
               ListField(safe_json(raw), "risks"),
               StrField(safe_json(raw), "recommendation"))

\* The try body after the call returned raw, when it does not raise
advisor_from_text(name, dep, raw) ==
    LET obj            == safe_json(raw)
        summary        == StrField(obj, "summary")
        risks          == ListField(obj, "risks")
        recommendation == StrField(obj, "recommendation")
    IN  IF summary = <<>> /\ strip(raw) # <<>>
        THEN AdvisorOut(name, dep, strip(raw), <<>>, <<"N/A">>)
        ELSE AdvisorOut(name, dep, summary, risks, recommendation)

\* Variant with a fault injected: the timeout falls through to "except Exception"
advisor_timeout_as_exception(name, dep) ==
    AdvisorOut(name, dep, <<>>, <<"exception:TimeoutError">>, <<>>)

advisor_on_timeout(name, dep) == AdvisorOut(name, dep, <<>>, <<"timeout">>, <<>>)

advisor_on_http(name, dep, code) == AdvisorOut(name, dep, <<>>, <<StatusRisk(code)>>, <<>>)

advisor_on_exception(name, dep, e) == AdvisorOut(name, dep, <<>>, <<ExcRisk(e)>>, <<>>)

\* The AdvisorOut _run_one_advisor returns once wait_for(aoai_chat(..)) ended with out
_run_one_advisor(name, dep, out) ==
    CASE out.k = "text" ->
            IF advisor_parse_raises(out.text)
            THEN advisor_on_exception(name, dep, "AttributeError")
            ELSE advisor_from_text(name, dep, out.text)
      [] out.k = "timeout" -> advisor_on_timeout(name, dep)
      [] out.k = "http"    -> advisor_on_http(name, dep, out.code)
      [] out.k = "exc"     -> advisor_on_exception(name, dep, out.exc)

\* ------------------------------------------------------------------------
\* swarm_decide: peers, monarch fields, response
\* ------------------------------------------------------------------------
PeerEntry(a) == [name |-> a.name, summary |-> a.summary, recommendation |-> a.recommendation]

\* Variant with a fault injected: the comprehension has no "if a.name != adv.name"
peers_with_self(p1, adv) == [j \in 1..Len(p1) |-> PeerEntry(p1[j])]

\* [{...} for a in pass1 if a.name != adv.name]
peers_of(p1, adv) ==
    LET others == SelectSeq(p1, LAMBDA a : a.name # adv.name)
    IN  [j \in 1..Len(others) |-> PeerEntry(others[j])]

MonarchOut(decision, rationale, dissent_summary, next_actions) ==
    [decision |-> decision, rationale |-> rationale,
     dissent_summary |-> dissent_summary, next_actions |-> next_actions]

EmptyMonarch == MonarchOut(<<>>, <<>>, <<>>, <<>>)

\* raw_m and obj_m after the try/except around the monarch call
raw_m_of(out) == IF out.k = "text" THEN out.text ELSE <<>>

obj_m_of(out) == IF out.k = "text" THEN safe_json(out.text) ELSE EmptyDict

\* The field extraction that follows the try/except: does it raise?
monarch_fields_raise(out) ==
    \/ StrFieldRaises(obj_m_of(out), "decision")
    \/ StrFieldRaises(obj_m_of(out), "rationale")
    \/ StrFieldRaises(obj_m_of(out), "dissent_summary")

\* Variant with a fault injected: the raw text is not used when no decision was parsed
monarch_fields_no_fallback(out) ==
    MonarchOut(StrField(obj_m_of(out), "decision"), StrField(obj_m_of(out), "rationale"),
               StrField(obj_m_of(out), "dissent_summary"),
               ListField(obj_m_of(out), "next_actions"))

monarch_fields(out) ==
    LET obj      == obj_m_of(out)
        raw_m    == raw_m_of(out)
        decision == StrField(obj, "decision")
    IN  IF decision = <<>> /\ strip(raw_m) # <<>>
        THEN MonarchOut(strip(raw_m), <<>>, <<>>, <<>>)
        ELSE MonarchOut(decision, StrField(obj, "rationale"),
                        StrField(obj, "dissent_summary"), ListField(obj, "next_actions"))

SwarmResponse(status, advisors, monarch) ==
    [status |-> status, advisors |-> advisors, monarch |-> monarch]

NoResponse == SwarmResponse("", <<>>, EmptyMonarch)

\* Variant with a fault injected: advisors=pass1
response_advisors_pass1(p1, rev) == p1

\* advisors=revised
response_advisors(p1, rev) == rev

\* ------------------------------------------------------------------------
\* Call frames
\* ------------------------------------------------------------------------
\* st: "idle" not dispatched; "post" awaiting client.post; "sleep" awaiting
\* asyncio.sleep; "ret" wait_for(aoai_chat(..)) has ended with out and the
\* awaiting coroutine has not resumed yet; "settled" the call's coroutine has
\* finished (its locals are gone; out records how the call ended and res is
\* what the coroutine returned).
\* hist, slept and posts record the answers received, the delays slept and
\* the posts issued by the call in flight.
IdleFrame ==
    [st |-> "idle", name |-> "", dep |-> "", inp |-> <<>>, attempt |-> 0,
     posts |-> 0, hist |-> <<>>, slept |-> <<>>, out |-> NoOut, res |-> NoAdvisor,
     cl |-> 0]

\* _client: st is "None" or "open"; built counts the httpx.AsyncClient
\* constructed so far (the one in use is the built-th) and closed the aclose()
\* calls
NoClient == [st |-> "None", built |-> 0, closed |-> 0]

\* Variant with a fault injected: every call constructs a client of its own
get_client_always_new ==
    IF AZ_OK THEN [client EXCEPT !.st = "open", !.built = client.built + 1] ELSE client

\* _get_client(), reached only when the configuration check passed: the
\* client is built on first use
get_client ==
    IF AZ_OK /\ client.st = "None"
    THEN [client EXCEPT !.st = "open", !.built = client.built + 1]
    ELSE client

\* Entering aoai_chat: the configuration check, _get_client(), the first post;
\* cl is the client the call got
Dispatched(name, dep, inp) ==
    IF AZ_OK
    THEN [IdleFrame EXCEPT !.st = "post", !.name = name, !.dep = dep, !.inp = inp, !.posts = 1,
                           !.cl = get_client.built]
    ELSE [IdleFrame EXCEPT !.st = "ret", !.name = name, !.dep = dep, !.inp = inp,
                           !.out = ExcOut("RuntimeError")]

SettledFrame(f, result) == [IdleFrame EXCEPT !.st = "settled", !.out = f.out, !.res = result]

\* Variant with a fault injected: the join returns on the first finished task
AnySettled(round) == \E a \in Advisors : calls[<<round, a>>].st = "settled"

\* Variant with a fault injected: the join gives up when a task did not succeed
AllSucceeded(round) ==
    \A a \in Advisors : calls[<<round, a>>].st = "settled" /\ calls[<<round, a>>].out.k = "text"

\* asyncio.gather: every task has finished
AllSettled(round) == \A a \in Advisors : calls[<<round, a>>].st = "settled"

\* Variant with a fault injected: the last task's result is left out
gather_results_short == [a \in 1..(NumAdvisors - 1) |-> calls[<<1, a>>].res]

\* asyncio.gather: the results, in the order of the tasks
gather_results == [a \in Advisors |-> calls[<<1, a>>].res]

\* ------------------------------------------------------------------------
\* Initial state: the application has started and no request has come yet
\* ------------------------------------------------------------------------
TypeInit ==
    /\ client = NoClient
    /\ pc = "idle"
    /\ calls = [c \in CallIds |-> IdleFrame]
    /\ pass1 = <<>>
    /\ revised = <<>>
    /\ response = NoResponse

Init ==
    /\ AZ_OK \in BOOLEAN
    /\ RETRY_BASE_MS = DEFAULT_RETRY_BASE_MS
    /\ TypeInit

\* ------------------------------------------------------------------------
\* swarm_decide, up to its first await
\* ------------------------------------------------------------------------
\* require_api_key raises: the request ends before any call
Unauthorized ==
    /\ pc = "idle"
    /\ pc' = "rejected"
    /\ UNCHANGED <<AZ_OK, RETRY_BASE_MS, client, calls, pass1, revised, response>>

\* require_api_key passes; PASS 1 creates one task per advisor_defs entry and
\* gather starts them
StartRequest ==
    /\ pc = "idle"
    /\ pc' = "pass1"
    /\ calls' = [c \in CallIds |->
                    IF c[1] = 1
                    THEN Dispatched(advisor_defs[c[2]].name, advisor_defs[c[2]].dep, <<>>)
                    ELSE IdleFrame]
    /\ client' = get_client
    /\ UNCHANGED <<AZ_OK, RETRY_BASE_MS, pass1, revised, response>>

\* ------------------------------------------------------------------------
\* One call in flight: wait_for(aoai_chat(..), timeout)
\* ------------------------------------------------------------------------
\* client.post of the current attempt comes back with resp; jitter is the
\* random.randint(0, 150) drawn if the attempt is retried
Respond(c, resp, jitter) ==
    /\ calls[c].st = "post"
    /\ LET f == calls[c]
           o == attempt_outcome(f.attempt, resp)
       IN  calls' = [calls EXCEPT ![c] =
                IF o.k = "retry"
                THEN [f EXCEPT !.st = "sleep",
                               !.hist = Append(f.hist, resp),
                               !.slept = Append(f.slept, backoff(f.attempt, jitter))]
                ELSE [f EXCEPT !.st = "ret", !.hist = Append(f.hist, resp), !.out = o]]
    /\ UNCHANGED <<AZ_OK, RETRY_BASE_MS, client, pc, pass1, revised, response>>

\* asyncio.sleep(backoff) is over: the next iteration posts again, or the
\* loop is exhausted and aoai_chat returns ""
Wake(c) ==
    /\ calls[c].st = "sleep"
    /\ LET f == calls[c]
       IN  calls' = [calls EXCEPT ![c] =
                IF LoopContinues(f.attempt)
                THEN [f EXCEPT !.st = "post", !.attempt = f.attempt + 1, !.posts = f.posts + 1]
                ELSE [f EXCEPT !.st = "ret", !.out = TextOut(<<>>)]]
    /\ UNCHANGED <<AZ_OK, RETRY_BASE_MS, client, pc, pass1, revised, response>>

\* Variant with a fault injected: the deadline cuts the awaited post or sleep
\* only, and the retry loop goes on
cancelled_attempt_only(f) == [f EXCEPT !.st = "sleep", !.out = TimeoutError]

\* wait_for cancels aoai_chat: CancelledError is raised at the awaited post or
\* sleep, no handler of the loop catches it, and the coroutine ends
cancelled(f) == [f EXCEPT !.st = "ret", !.out = TimeoutError]

\* The call's deadline passes while it awaits a post or a sleep: wait_for
\* cancels aoai_chat and raises asyncio.TimeoutError
Deadline(c) ==
    /\ calls[c].st \in {"post", "sleep"}
    /\ calls' = [calls EXCEPT ![c] = cancelled(@)]
    /\ UNCHANGED <<AZ_OK, RETRY_BASE_MS, client, pc, pass1, revised, response>>

\* ------------------------------------------------------------------------
\* swarm_decide, stage by stage
\* ------------------------------------------------------------------------
\* A round-1 task: _run_one_advisor resumes after wait_for and returns
Resume1(a) ==
    /\ pc = "pass1"
    /\ calls[<<1, a>>].st = "ret"
    /\ LET f == calls[<<1, a>>]
       IN  calls' = [calls EXCEPT ![<<1, a>>] =
                        SettledFrame(f, _run_one_advisor(f.name, f.dep, f.out))]
    /\ UNCHANGED <<AZ_OK, RETRY_BASE_MS, client, pc, pass1, revised, response>>

\* await asyncio.gather(*tasks) returns; PASS 2 starts with the first advisor
Gather ==
    /\ pc = "pass1"
    /\ AllSettled(1)
    /\ pass1' = gather_results
    /\ pc' = "pass2"
    /\ calls' = [calls EXCEPT ![<<2, 1>>] =
                    Dispatched(pass1'[1].name, pass1'[1].model, peers_of(pass1', pass1'[1]))]
    /\ client' = get_client
    /\ UNCHANGED <<AZ_OK, RETRY_BASE_MS, revised, response>>

\* PASS 2, one iteration of "for adv in pass1": the awaited _run_one_advisor
\* returns and is appended to revised; then the next iteration starts its
\* call, or the loop is over and the monarch call starts
Resume2(a) ==
    /\ pc = "pass2"
    /\ calls[<<2, a>>].st = "ret"
    /\ LET f == calls[<<2, a>>]
           r == _run_one_advisor(f.name, f.dep, f.out)
       IN  /\ revised' = Append(revised, r)
           /\ IF a < Len(pass1)
              THEN /\ calls' = [calls EXCEPT
                        ![<<2, a>>] = SettledFrame(f, r),
                        ![<<2, a + 1>>] = Dispatched(pass1[a + 1].name, pass1[a + 1].model,
                                                     peers_of(pass1, pass1[a + 1]))]
                   /\ pc' = pc
              ELSE /\ calls' = [calls EXCEPT
                        ![<<2, a>>] = SettledFrame(f, r),
                        ![MONARCH] = Dispatched("Monarch", "dep_monarch", revised')]
                   /\ pc' = "monarch"
    /\ client' = get_client
    /\ UNCHANGED <<AZ_OK, RETRY_BASE_MS, pass1, response>>

\* MONARCH: swarm_decide resumes after wait_for (the try/except swallows any
\* exception of the call), extracts the fields and returns the response, or
\* the extraction raises and the exception leaves swarm_decide
ResumeMonarch ==
    /\ pc = "monarch"
    /\ calls[MONARCH].st = "ret"
    /\ LET out == calls[MONARCH].out
       IN  IF monarch_fields_raise(out)
           THEN /\ pc' = "raised"
                /\ response' = response
           ELSE /\ pc' = "done"
                /\ response' = SwarmResponse("ok", response_advisors(pass1, revised),
                                            monarch_fields(out))
    /\ calls' = [calls EXCEPT ![MONARCH] = SettledFrame(calls[MONARCH], NoAdvisor)]
    /\ UNCHANGED <<AZ_OK, RETRY_BASE_MS, client, pass1, revised>>

\* ------------------------------------------------------------------------
\* The request as a whole
\* ------------------------------------------------------------------------
GoodAdvisorText == <<"{", "s=x", ",", "k=[r]", ",", "r=y", "}">>

GoodMonarchText == <<"{", "d=z", ",", "t=q", ",", "u=v", ",", "a=[n]", "}">>

\* What a post of an advisor call is answered with
AdvisorAnswers == {Http(200, GoodAdvisorText), Http(503, <<>>)}

\* What a post of the monarch call is answered with
MonarchAnswers ==
    {Http(200, GoodMonarchText), Http(200, <<"[]">>), Http(200, <<"{", "d=5", "}">>),
     Http(200, <<WS, "w", WS>>), Http(503, <<>>)}

Answers(c) == IF c = MONARCH THEN MonarchAnswers ELSE AdvisorAnswers

SwarmJitters == {JITTER_MAX}

Next ==
    \/ Unauthorized
    \/ StartRequest
    \/ \E c \in CallIds : \E resp \in Answers(c) : \E j \in SwarmJitters : Respond(c, resp, j)
    \/ \E c \in CallIds : Wake(c)
    \/ \E c \in CallIds : Deadline(c)
    \/ \E a \in Advisors : Resume1(a)
    \/ Gather
    \/ \E a \in Advisors : Resume2(a)
    \/ ResumeMonarch

Spec == Init /\ [][Next]_vars

\* ------------------------------------------------------------------------
\* One call on its own: the Builder's round-1 call, under every base delay,
\* jitter and answer of the menus below (its siblings stay in flight)
\* ------------------------------------------------------------------------
BaseChoices == {0, 100, JITTER_MAX - 1, JITTER_MAX, DEFAULT_RETRY_BASE_MS}

Jitters == {0, 1, JITTER_MAX - 1, JITTER_MAX}

CallTexts ==
    { <<>>,
      GoodAdvisorText,
      <<"w", WS, "{", "s=x", ",", "r=y", "}", WS, "w">>,
      <<WS, "w", WS>>,
      <<WS>>,
      <<"[]">>,
      <<"5">>,
      <<"{", "s=5", "}">>,
      <<"{", "s= x ", ",", "r=5", "}">>,
      <<"{", "k=[r]", "}">>,
      <<"{", "k=[r]", ",", "r=y", "}">>,
      <<"{", "s=x", "}", "{", "r=y", "}">> }

CallStatuses == RETRYABLE \cup {400, 500}

CallAnswers ==
    {Http(200, t) : t \in CallTexts}
        \cup {Http(code, <<>>) : code \in CallStatuses}
        \cup {Http(302, GoodAdvisorText), BadBody(200), BadBody(302)}
        \cup {Fault(e) : e \in NETWORK_FAULTS \cup {"WriteTimeout", "PoolTimeout", "ConnectError"}}

ONE == <<1, 1>>

InitCall ==
    /\ AZ_OK \in BOOLEAN
    /\ RETRY_BASE_MS \in BaseChoices
    /\ TypeInit

NextCall ==
    \/ StartRequest
    \/ \E resp \in CallAnswers : \E j \in Jitters : Respond(ONE, resp, j)
    \/ Wake(ONE)
    \/ Deadline(ONE)
    \/ Resume1(1)

SpecCall == InitCall /\ [][NextCall]_vars

\* ------------------------------------------------------------------------
\* Properties
\* ------------------------------------------------------------------------
InFlight == {"post", "sleep", "ret"}

NamesMatch(list) ==
    /\ Len(list) = NumAdvisors
    /\ \A a \in Advisors : list[a].name = advisor_defs[a].name /\ list[a].model = advisor_defs[a].dep

IsTimeout(r) == r.risks = <<"timeout">> /\ r.summary = <<>> /\ r.recommendation = <<>>

\* C1: whatever the outcomes of the round-1 and round-2 calls, pass1 (once
\* gather has returned) and revised (once the debate loop is over) hold exactly
\* one AdvisorOut per entry of advisor_defs, in its order, and so does the
\* advisor list of the response, whose length is the advisor count, 4.
C1_OneResultPerAdvisor ==
    /\ NumAdvisors = 4
    /\ pc \in {"pass2", "monarch", "done", "raised"} => NamesMatch(pass1)
    /\ pc \in {"monarch", "done", "raised"} => NamesMatch(revised)
    /\ pc = "done" => NamesMatch(response.advisors)

\* A response whose round 1 had a timeout, an upstream error and a success and
\* whose round 2 had a timeout and an upstream error
C1_Witness ==
    /\ pc = "done"
    /\ Len(response.advisors) = 4
    /\ calls[<<1, 1>>].out.k = "timeout"
    /\ calls[<<1, 2>>].out.k = "http"
    /\ calls[<<1, 3>>].out.k = "text"
    /\ calls[<<2, 3>>].out.k = "timeout"
    /\ calls[<<2, 4>>].out.k = "http"

\* C2: once require_api_key has passed, no exception leaves swarm_decide,
\* whatever the advisor, debate and monarch calls end with (a timeout, an
\* upstream status, an exception, or any text, also one that parses to a JSON
\* value that is not an object or to an object whose fields are not strings).
C2_NoExceptionEscapes == pc # "raised"

\* C3: no round-2 call is dispatched before every round-1 call has settled,
\* the monarch call is not dispatched before every round-2 call has settled,
\* and the monarch call's input is the complete revised list.
C3_StageBarrier ==
    /\ \A a \in Advisors :
          calls[<<2, a>>].st # "idle" => \A b \in Advisors : calls[<<1, b>>].st = "settled"
    /\ calls[MONARCH].st # "idle" => \A a \in Advisors : calls[<<2, a>>].st = "settled"
    /\ calls[MONARCH].st \in InFlight =>
          calls[MONARCH].inp = revised /\ Len(revised) = NumAdvisors

\* The monarch call in flight after a round 2 in which an advisor timed out
C3_Witness ==
    /\ calls[MONARCH].st = "sleep"
    /\ \E a \in Advisors : calls[<<2, a>>].out.k = "timeout"
    /\ \E a \in Advisors : calls[<<1, a>>].out.k = "http"

\* The round-1 entries of every advisor but a, in the order of advisor_defs
OtherEntries(a) ==
    [j \in 1..(NumAdvisors - 1) |-> PeerEntry(pass1[IF j < a THEN j ELSE j + 1])]

\* C4: the peers passed to advisor a's round-2 call are exactly the round-1
\* (name, summary, recommendation) entries of every other advisor, and no entry
\* bears a's name, whatever the round-1 outcomes were.
C4_PeersExcludeSelf ==
    \A a \in Advisors :
        calls[<<2, a>>].st \in InFlight =>
            /\ calls[<<2, a>>].inp = OtherEntries(a)
            /\ \A j \in 1..Len(calls[<<2, a>>].inp) :
                  calls[<<2, a>>].inp[j].name # advisor_defs[a].name

\* The Skeptic's round-2 call in flight with one degraded peer and two peers with a summary
C4_Witness ==
    /\ calls[<<2, 2>>].st = "post"
    /\ Len(calls[<<2, 2>>].inp) = 3
    /\ calls[<<2, 2>>].inp[1].summary = <<>>
    /\ calls[<<2, 2>>].inp[2].summary = <<"x">>
    /\ calls[<<2, 2>>].inp[3].summary = <<"x">>

\* C5: whatever the answers to its attempts (retryable statuses and network
\* faults mixed, other statuses, successes), a call sleeps at most RETRY_MAX
\* backoffs and issues at most RETRY_MAX + 1 posts.
C5_RetriesBounded ==
    \A c \in CallIds :
        /\ Len(calls[c].slept) <= RETRY_MAX
        /\ calls[c].posts <= RETRY_MAX + 1
        /\ calls[c].attempt <= RETRY_MAX

\* A call that was retried after a retryable status and then after a network
\* fault, and got a retryable status again on its last attempt
C5_Witness ==
    /\ calls[ONE].st = "ret"
    /\ Len(calls[ONE].hist) = RETRY_MAX + 1
    /\ calls[ONE].hist[1] = Http(503, <<>>)
    /\ calls[ONE].hist[2] = Fault("ReadTimeout")
    /\ calls[ONE].hist[3] = Http(429, <<>>)
    /\ calls[ONE].posts = RETRY_MAX + 1
    /\ Len(calls[ONE].slept) = RETRY_MAX

NonDecreasing(s) == \A i, j \in 1..Len(s) : i < j => s[i] <= s[j]

\* The i-th delay of a call is RETRY_BASE_MS * 2^(i-1) plus a jitter in 0..150
DelaysWellFormed(s) ==
    \A i \in 1..Len(s) :
        /\ s[i] >= RETRY_BASE_MS * (2 ^ (i - 1))
        /\ s[i] <= RETRY_BASE_MS * (2 ^ (i - 1)) + JITTER_MAX

\* C6 as stated: for every configured base delay and every sequence of jitter
\* draws, the delays a call sleeps are non-decreasing across its attempts.
C6_DelaysNonDecreasing ==
    \A c \in CallIds : NonDecreasing(calls[c].slept)

\* C6 as amended: each delay is RETRY_BASE_MS * 2^attempt plus a jitter in
\* 0..150, and when RETRY_BASE_MS is at least the jitter range (150; the default
\* 250 is) the delays are non-decreasing for every sequence of jitter draws.
C6_DelaysNonDecreasingFromJitter ==
    \A c \in CallIds :
        /\ DelaysWellFormed(calls[c].slept)
        /\ RETRY_BASE_MS >= JITTER_MAX => NonDecreasing(calls[c].slept)

\* The smallest such base with the largest jitter first and the smallest second
C6_Witness ==
    /\ RETRY_BASE_MS = JITTER_MAX
    /\ calls[ONE].slept = <<JITTER_MAX + JITTER_MAX, 2 * JITTER_MAX>>

IsRetryable(resp) == resp.k = "http" /\ resp.code \in RETRYABLE

IsSuccess(resp) == resp.k = "http" /\ resp.code = 200 /\ resp.exc = ""

\* C7: while a call has had only retryable statuses, k <= RETRY_MAX of them,
\* and its deadline has not passed, it has slept k backoffs and is sleeping or
\* posting attempt k+1; when attempt k+1 then succeeds, the call ends with that
\* attempt's text after exactly k sleeps and k+1 posts.
C7_RetryThenSuccess ==
    \A c \in CallIds : \A k \in 1..RETRY_MAX :
        LET f == calls[c]
        IN  /\ ( /\ f.out.k # "timeout"
                 /\ Len(f.hist) = k
                 /\ \A i \in 1..k : IsRetryable(f.hist[i]) )
               => /\ f.st \in {"sleep", "post"}
                  /\ Len(f.slept) = k
                  /\ f.posts = IF f.st = "post" THEN k + 1 ELSE k
            /\ ( /\ f.out.k # "timeout"
                 /\ Len(f.hist) = k + 1
                 /\ \A i \in 1..k : IsRetryable(f.hist[i])
                 /\ IsSuccess(f.hist[k + 1]) )
               => /\ f.st = "ret"
                  /\ f.out = TextOut(f.hist[k + 1].text)
                  /\ Len(f.slept) = k
                  /\ f.posts = k + 1

\* 503 then success: one retry
C7_Witness ==
    /\ calls[ONE].st = "ret"
    /\ calls[ONE].hist = <<Http(503, <<>>), Http(200, GoodAdvisorText)>>
    /\ calls[ONE].out = TextOut(GoodAdvisorText)
    /\ Len(calls[ONE].slept) = 1
    /\ calls[ONE].posts = 2

\* C8: a call that ends by its deadline settles as a timeout: an advisor call
\* (either round) returns the AdvisorOut with empty summary and recommendation
\* and risks ["timeout"]; after a monarch timeout swarm_decide returns a
\* response whose four monarch fields are empty; a timeout never makes an
\* exception leave swarm_decide.
C8_TimeoutDegrades ==
    /\ \A a \in Advisors : \A round \in {1, 2} :
          (calls[<<round, a>>].st = "settled" /\ calls[<<round, a>>].out.k = "timeout")
             => calls[<<round, a>>].res =
                   AdvisorOut(advisor_defs[a].name, advisor_defs[a].dep, <<>>, <<"timeout">>, <<>>)
    /\ (calls[MONARCH].st = "settled" /\ calls[MONARCH].out.k = "timeout")
          => /\ pc = "done"
             /\ response.status = "ok"
             /\ response.monarch = EmptyMonarch
    /\ pc = "raised" => calls[MONARCH].out.k = "text"

\* A response after timeouts in round 1, in round 2 and of the monarch call
C8_Witness ==
    /\ pc = "done"
    /\ calls[MONARCH].out.k = "timeout"
    /\ response.monarch = EmptyMonarch
    /\ calls[<<1, 1>>].out.k = "timeout"
    /\ calls[<<2, 2>>].out.k = "timeout"
    /\ response.advisors[2].risks = <<"timeout">>

\* C9: degraded round-1 calls never stop the request: once all round-1 calls
\* have settled the debate round starts; while the request is in the debate
\* round or at the monarch a call is in flight; when swarm_decide has ended,
\* every advisor's round-2 call and the monarch call were issued and have
\* settled, a returned response has status "ok", and an exception leaves
\* swarm_decide only after a monarch call that succeeded.
C9_DegradedCallsDoNotAbort ==
    /\ (pc = "pass1" /\ \A a \in Advisors : calls[<<1, a>>].st = "settled") => ENABLED Gather
    /\ pc = "pass2" => \E a \in Advisors : calls[<<2, a>>].st \in InFlight
    /\ pc = "monarch" => calls[MONARCH].st \in InFlight
    /\ pc \in {"done", "raised"} =>
          /\ \A a \in Advisors : calls[<<2, a>>].st = "settled"
          /\ calls[MONARCH].st = "settled"
    /\ pc = "done" => response.status = "ok"
    /\ pc = "raised" => calls[MONARCH].out.k = "text"

\* Three of the four advisors degraded in round 1, all round-2 calls and the
\* monarch call succeeded, status "ok"
C9_Witness ==
    /\ pc = "done"
    /\ response.status = "ok"
    /\ calls[<<1, 1>>].out.k = "timeout"
    /\ calls[<<1, 2>>].out.k = "http"
    /\ calls[<<1, 4>>].out.k = "timeout"
    /\ \A a \in Advisors : calls[<<2, a>>].out.k = "text"
    /\ calls[MONARCH].out.k = "text"

TimedOutRound1 == {a \in Advisors : IsTimeout(pass1[a])}

TimedOutRound2 == {a \in Advisors : calls[<<2, a>>].out.k = "timeout"}

ShownTimedOut == {a \in Advisors : IsTimeout(response.advisors[a])}

\* C10 as stated: the response shows the timeout diagnostic for every advisor
\* that timed out in round 1; with 2 of 4 timing out in round 1, exactly 2
\* results of the response carry it.
C10_Round1TimeoutsShown ==
    pc = "done" =>
        /\ TimedOutRound1 \subseteq ShownTimedOut
        /\ Cardinality(TimedOutRound1) = 2 => Cardinality(ShownTimedOut) = 2

\* C10 as amended: the response shows the timeout diagnostic for exactly the
\* advisors whose round-2 call timed out; with 2 of 4 timing out in round 2,
\* exactly 2 results carry it.  A round-1 timeout is in pass1 only.
C10_Round2TimeoutsShown ==
    pc = "done" =>
        /\ ShownTimedOut = TimedOutRound2
        /\ Cardinality(TimedOutRound2) = 2 => Cardinality(ShownTimedOut) = 2

\* Two advisors timed out in round 1 and the other two in round 2
C10_Witness ==
    /\ pc = "done"
    /\ TimedOutRound1 = {1, 2}
    /\ TimedOutRound2 = {3, 4}
    /\ ShownTimedOut = {3, 4}

Degraded(out) == out.k \in {"timeout", "http", "exc"}

\* C11: when an advisor's round-2 call is degraded (a timeout, an upstream
\* status or an exception), its entry in revised and in the response is its
\* round-1 result, not a placeholder.
C11_Round2FailureKeepsRound1 ==
    pc = "done" =>
        \A a \in Advisors :
            Degraded(calls[<<2, a>>].out) =>
                /\ revised[a] = pass1[a]
                /\ response.advisors[a] = pass1[a]

\* C12: the debate round dispatches every round-2 call without waiting for a
\* sibling: while one round-2 call is waiting for its answer or backing off
\* before a retry, no other advisor's round-2 call is still undispatched.
C12_Round2DispatchedTogether ==
    \A a, b \in Advisors :
        calls[<<2, a>>].st \in {"post", "sleep"} =>
            calls[<<2, b>>].st # "idle"

\* What a settled round-1 call returned follows from how that call ended
Round1OwnOutcome(a) ==
    LET f == calls[<<1, a>>]
    IN  f.st = "settled" =>
            f.res = _run_one_advisor(advisor_defs[a].name, advisor_defs[a].dep, f.out)

Round1Independent ==
    /\ pc \notin {"idle", "rejected"} => \A a \in Advisors : Round1OwnOutcome(a)
    /\ pc \notin {"idle", "rejected", "pass1"} =>
            /\ \A a \in Advisors : calls[<<1, a>>].st = "settled"
            /\ pass1 = [a \in Advisors |-> calls[<<1, a>>].res]

\* During round 1 a step of one call leaves every sibling's frame as it was
Round1StepIsLocal ==
    (pc = "pass1" /\ pc' = "pass1") =>
        \A a, b \in Advisors :
            (a # b /\ calls'[<<1, a>>] # calls[<<1, a>>]) =>
                calls'[<<1, b>>] = calls[<<1, b>>]

\* C13: in round 1 the failure, timeout or backoff of one advisor's call
\* never cancels, blocks or changes the outcome of a sibling call, and the
\* join returns only after every call has settled, with every result.
C13_Round1CallsIndependent == []Round1Independent /\ [][Round1StepIsLocal]_vars

\* One call has timed out, one is backing off, one has succeeded and one is
\* still waiting for its first answer
C13_Witness ==
    /\ pc = "pass1"
    /\ calls[<<1, 1>>].st = "settled" /\ IsTimeout(calls[<<1, 1>>].res)
    /\ calls[<<1, 2>>].st = "sleep"
    /\ calls[<<1, 3>>].st = "settled" /\ calls[<<1, 3>>].out.k = "text"
    /\ calls[<<1, 3>>].res.summary # <<>>
    /\ calls[<<1, 4>>].st = "post" /\ calls[<<1, 4>>].hist = <<>>

\* C14: when the backend configuration is missing, the request fails as a
\* whole: no call issues a post or is retried, and swarm_decide does not return
\* a response with status "ok".
C14_ConfigErrorFailsRequest ==
    ~AZ_OK =>
        /\ \A c \in CallIds : calls[c].posts = 0 /\ calls[c].st \notin {"post", "sleep"}
        /\ pc # "done"
        /\ response.status # "ok"

\* The four timeouts the client is configured with, as httpx raises them
TimeoutCategories == {"ConnectTimeout", "ReadTimeout", "WriteTimeout", "PoolTimeout"}

\* C15: a connect, read, write or pool timeout on an attempt below the retry
\* maximum is followed by a backoff sleep, as a retryable status is.
C15_EveryTimeoutRetried ==
    \A c \in CallIds : \A i \in 1..RETRY_MAX :
        LET f == calls[c]
        IN  ( /\ i <= Len(f.hist)
              /\ f.hist[i].k = "exc"
              /\ f.hist[i].exc \in TimeoutCategories )
            => Len(f.slept) >= i

IsStatus(resp) == resp.k = "http"

MonarchEnded == pc \in {"done", "raised"}

\* C17: when the monarch call succeeds with a non-empty raw text from which no
\* mapping is extracted, the response's decision is that raw text and the
\* rationale, dissent summary and next actions are empty; when the monarch
\* call is degraded, all four are empty and the status is "ok".
C17_ArbiterKeepsRawText ==
    MonarchEnded =>
        LET out == calls[MONARCH].out
        IN  /\ (out.k = "text" /\ out.text # <<>> /\ safe_json(out.text) = EmptyDict)
                => /\ pc = "done"
                   /\ response.monarch = MonarchOut(out.text, <<>>, <<>>, <<>>)
            /\ Degraded(out)
                => /\ pc = "done"
                   /\ response.status = "ok"
                   /\ response.monarch = EmptyMonarch

\* C17 as the code has it: the raw text counts when it is not blank, and the
\* decision is the raw text without its leading and trailing whitespace.
C17_ArbiterKeepsStrippedText ==
    MonarchEnded =>
        LET out == calls[MONARCH].out
        IN  /\ (out.k = "text" /\ strip(out.text) # <<>> /\ safe_json(out.text) = EmptyDict)
                => /\ pc = "done"
                   /\ response.status = "ok"
                   /\ response.monarch = MonarchOut(strip(out.text), <<>>, <<>>, <<>>)
            /\ Degraded(out)
                => /\ pc = "done"
                   /\ response.status = "ok"
                   /\ response.monarch = EmptyMonarch

\* The monarch answered with plain text between spaces
C17_Witness ==
    /\ pc = "done"
    /\ calls[MONARCH].out = TextOut(<<WS, "w", WS>>)
    /\ response.monarch.decision = <<"w">>
    /\ response.monarch.rationale = <<>>

\* The round-1 call ONE has returned raw and its coroutine has finished
AdvisorGot(raw) == calls[ONE].st = "settled" /\ calls[ONE].out = TextOut(raw)

SucceededTexts == {t \in CallTexts : AdvisorGot(t)}

\* C18: when an advisor's call succeeds with a non-empty raw text and the
\* parser yields the empty mapping, the advisor's result has the raw text
\* verbatim as its summary, no risks and the recommendation "N/A".
C18_RawTextIsSummary ==
    \A raw \in SucceededTexts :
        (raw # <<>> /\ safe_json(raw) = EmptyDict)
            => calls[ONE].res =
                   AdvisorOut(advisor_defs[1].name, advisor_defs[1].dep, raw, <<>>, <<"N/A">>)

\* C18 as the code has it: the raw text counts when it is not blank, and the
\* summary is the raw text without its leading and trailing whitespace.
C18_StrippedTextIsSummary ==
    \A raw \in SucceededTexts :
        (strip(raw) # <<>> /\ safe_json(raw) = EmptyDict)
            => calls[ONE].res =
                   AdvisorOut(advisor_defs[1].name, advisor_defs[1].dep,
                              strip(raw), <<>>, <<"N/A">>)

\* The advisor answered with plain text between spaces
C18_Witness ==
    /\ AdvisorGot(<<WS, "w", WS>>)
    /\ calls[ONE].res.summary = <<"w">>
    /\ calls[ONE].res.recommendation = <<"N/A">>

AdvisorKeys == {"summary", "risks", "recommendation"}

\* obj is a mapping that holds some of the advisor's keys, each with a value
\* of its kind: a string for summary and recommendation, a list for risks
HoldsAdvisorKeys(obj) ==
    /\ obj.t = "dict"
    /\ \E key \in AdvisorKeys : obj.m[key] # NoneV
    /\ obj.m["summary"].t \in {"none", "str"}
    /\ obj.m["risks"].t \in {"none", "list"}
    /\ obj.m["recommendation"].t \in {"none", "str"}

\* C19: when an advisor's call succeeds and the parser recovers a mapping
\* that holds a subset of the keys summary, risks and recommendation, each
\* field of the advisor's result is the recovered value of its key when the
\* key is present and empty when it is absent, and no exception is raised.
C19_FieldsFollowRecoveredKeys ==
    \A raw \in SucceededTexts :
        HoldsAdvisorKeys(safe_json(raw))
            => calls[ONE].res =
                   AdvisorOut(advisor_defs[1].name, advisor_defs[1].dep,
                              safe_json(raw).m["summary"].s,
                              safe_json(raw).m["risks"].s,
                              safe_json(raw).m["recommendation"].s)

HasBrace(text) == \E i \in 1..Len(text) : text[i] \in {"{", "}"}

\* C20: for a raw text that contains no brace, safe_json returns the empty
\* mapping, and the advisor's result then has the raw text as its summary.
C20_NoBraceGivesEmptyMapping ==
    \A raw \in CallTexts :
        (calls[ONE].st \in {"ret", "settled"} /\ calls[ONE].out = TextOut(raw) /\ ~HasBrace(raw))
            => /\ safe_json(raw) = EmptyDict
               /\ calls[ONE].st = "settled" => calls[ONE].res.summary = strip(raw)

\* ------------------------------------------------------------------------
\* safe_json on every short text: one advisor call whose first answer is a
\* 200 with any text of at most MaxTextLen tokens
\* ------------------------------------------------------------------------
MaxTextLen == 5

ParseAlphabet == {"{", "}", ",", "s=x", "5", "w", WS}

ParseTexts == UNION {[1..n -> ParseAlphabet] : n \in 0..MaxTextLen}

NextParse ==
    \/ StartRequest
    \/ /\ calls[ONE].st = "post"
       /\ \E text \in ParseTexts : Respond(ONE, Http(200, text), 0)
    \/ Resume1(1)

SpecParse == Init /\ [][NextParse]_vars

\* The two tiers, read off the text as it came: the whole text, else the
\* stretch from the first "{" to the last "}", else nothing
FirstOpen(text) == SetMin(Occurrences(text, "{"))

LastClose(text) == SetMax(Occurrences(text, "}"))

HasCandidate(text) ==
    /\ Occurrences(text, "{") # {}
    /\ Occurrences(text, "}") # {}
    /\ FirstOpen(text) < LastClose(text)

TwoTier(text) ==
    IF json_loads(text).t # "fail" THEN json_loads(text)
    ELSE IF HasCandidate(text)
            /\ json_loads(SubSeq(text, FirstOpen(text), LastClose(text))).t # "fail"
         THEN json_loads(SubSeq(text, FirstOpen(text), LastClose(text)))
         ELSE EmptyDict

\* The call ONE has returned a text
Returned == calls[ONE].st \in {"ret", "settled"} /\ calls[ONE].out.k = "text"

ClientCallers == {<<1, 1>>, <<1, 2>>, <<1, 3>>}

\* A call enters aoai_chat and runs to its first await: the configuration
\* check, _get_client() and the first post, with no await in between. Requests
\* are served until the application shuts down.
Enter(c) ==
    /\ client.closed = 0
    /\ calls[c].st = "idle"
    /\ calls' = [calls EXCEPT ![c] =
                    Dispatched(advisor_defs[c[2]].name, advisor_defs[c[2]].dep, <<>>)]
    /\ client' = get_client
    /\ UNCHANGED <<AZ_OK, RETRY_BASE_MS, pc, pass1, revised, response>>

\* wait_for(aoai_chat(..)) has ended and its caller has taken the outcome
Leave(c) ==
    /\ calls[c].st = "ret"
    /\ calls' = [calls EXCEPT ![c] = IdleFrame]
    /\ UNCHANGED <<AZ_OK, RETRY_BASE_MS, client, pc, pass1, revised, response>>

\* _shutdown, run by the server once the requests in progress have ended:
\* the client, if there is one, is closed and forgotten
Shutdown ==
    /\ \A c \in CallIds : calls[c].st = "idle"
    /\ client.st = "open"
    /\ client' = [client EXCEPT !.st = "None", !.closed = client.closed + 1]
    /\ UNCHANGED <<AZ_OK, RETRY_BASE_MS, pc, calls, pass1, revised, response>>

NextClient ==
    \/ \E c \in ClientCallers :
            \/ Enter(c)
            \/ \E resp \in AdvisorAnswers : \E j \in SwarmJitters : Respond(c, resp, j)
            \/ Wake(c)
            \/ Deadline(c)
            \/ Leave(c)
    \/ Shutdown

SpecClient == Init /\ [][NextClient]_vars

\* C22: the client is constructed lazily and once. Before shutdown there is
\* no client until a call has got one, at most one client is ever constructed
\* however the calls interleave, and every call in flight holds that one
\* client; shutdown closes it.
C22_OneSharedClient ==
    /\ client.built <= 1
    /\ client.closed = 0 =>
            /\ client.st = "None" <=> client.built = 0
            /\ client.built = 0 =>
                    \A c \in CallIds : calls[c].st \notin {"post", "sleep"} /\ calls[c].posts = 0
            /\ \A c \in CallIds :
                    calls[c].st \in {"post", "sleep"} =>
                        /\ client.st = "open"
                        /\ calls[c].cl = client.built
    /\ client.closed > 0 => client.st = "None" /\ client.closed = client.built

\* Three calls in flight at once on the one client, the first of them already
\* backing off when the others entered
C22_Witness ==
    /\ calls[<<1, 1>>].st = "sleep" /\ calls[<<1, 1>>].cl = 1
    /\ calls[<<1, 2>>].st = "post" /\ calls[<<1, 2>>].cl = 1
    /\ calls[<<1, 3>>].st = "post" /\ calls[<<1, 3>>].hist = <<>> /\ calls[<<1, 3>>].cl = 1
    /\ pc = "idle"
    /\ client = [st |-> "open", built |-> 1, closed |-> 0]

\* A call whose deadline has fired is not posting or sleeping, and from then
\* on its posts and its sleeps do not grow
TimedOutCallStops(c) ==
    /\ calls'[c].out.k = "timeout" => calls'[c].st \notin {"post", "sleep"}
    /\ calls[c].out.k = "timeout" =>
            /\ calls'[c].st \notin {"post", "sleep"}
            /\ calls'[c].posts <= calls[c].posts
            /\ Len(calls'[c].slept) <= Len(calls[c].slept)

\* C23: once wait_for has timed out around aoai_chat, the call issues no
\* further post and starts no further backoff sleep.
C23_NoAttemptAfterDeadline == [][\A c \in CallIds : TimedOutCallStops(c)]_vars

\* The deadline fired during the backoff after a 503: one post, one sleep,
\* and the second attempt is never made
C23_Witness ==
    /\ calls[<<1, 1>>].st = "ret"
    /\ calls[<<1, 1>>].out = TimeoutError
    /\ calls[<<1, 1>>].hist = <<Http(503, <<>>)>>
    /\ Len(calls[<<1, 1>>].slept) = 1
    /\ calls[<<1, 1>>].posts = 1
    /\ calls[<<1, 1>>].attempt < RETRY_MAX

\* ------------------------------------------------------------------------
\* Progress: every awaited post or sleep ends or is cut off by the call's
\* deadline, and the event loop resumes a coroutine that is ready, so a step
\* is taken whenever one is possible
\* ------------------------------------------------------------------------
\* The answers of a request followed to its end: the first advisor's calls
\* can be retried and fail, the monarch can fail or answer with a JSON array,
\* and every call can time out
LiveAnswers(c) ==
    IF c = MONARCH
    THEN {Http(200, <<"{", "d=z", "}">>), Http(200, <<"[]">>), Http(503, <<>>)}
    ELSE IF c[2] = 1
         THEN {Http(200, <<"{", "s=x", "}">>), Http(503, <<>>)}
         ELSE {Http(200, <<"{", "s=x", "}">>)}

NextLive ==
    \/ Unauthorized
    \/ StartRequest
    \/ \E c \in CallIds : \E resp \in LiveAnswers(c) : \E j \in SwarmJitters : Respond(c, resp, j)
    \/ \E c \in CallIds : Wake(c)
    \/ \E c \in CallIds : Deadline(c)
    \/ \E a \in Advisors : Resume1(a)
    \/ Gather
    \/ \E a \in Advisors : Resume2(a)
    \/ ResumeMonarch

FairSpec == Init /\ [][NextLive]_vars /\ WF_vars(NextLive)

\* C24: every request that has passed the key check completes: all its calls
\* settle and swarm_decide reaches its return with the response.
C24_RequestReturns ==
    (pc = "pass1") ~>
        /\ pc = "done"
        /\ response.status = "ok"
        /\ \A c \in CallIds : calls[c].st = "settled"

====
